---- MODULE Spec2Model ----
(***************************************************************************)
(* Model of main.py: the training / evaluation driver of the detector.     *)
(* One process per rank runs main(args); the processes share the output    *)
(* directory.  Every process owns its model, optimizer, scheduler, sampler *)
(* and tracking sink.                                                      *)
(***************************************************************************)
EXTENDS Integers, Sequences, FiniteSets, TLC

(* ---------------------------------------------------------------------- *)
(* Bounds of the model                                                      *)
(* ---------------------------------------------------------------------- *)
MaxRun == 2
MaxBatches == 1
LongBatches == 51
MaxWorld == 2
MaxImages == 1
MaxBoxes == 1

(* ---------------------------------------------------------------------- *)
(* Program constants                                                        *)
(* ---------------------------------------------------------------------- *)
SampleInterval == 50
CenturyInterval == 100
PadWidth == 4
DefaultSeed == 42

Unbound == -1

StartEpochs == {0, 98, 150, 198}
LrDrops == {3, 200}

Max(a, b) == IF a >= b THEN a ELSE b

(* ---------------------------------------------------------------------- *)
(* f'{epoch:04}': decimal digits, zero-padded on the left to width 4        *)
(* ---------------------------------------------------------------------- *)
RECURSIVE Digits(_)
Digits(n) == IF n < 10 THEN <<n>> ELSE Append(Digits(n \div 10), n % 10)

RECURSIVE PadLeft(_, _)
PadLeft(s, w) == IF Len(s) >= w THEN s ELSE PadLeft(<<0>> \o s, w)

Format04(n) == PadLeft(Digits(n), PadWidth)

LatestPath == [name |-> "checkpoint", suffix |-> <<>>]
\* the numbered file named by the count of epochs done
NumberedPathOneBased(epoch) == [name |-> "checkpoint", suffix |-> Format04(epoch + 1)]

NumberedPath(epoch) == [name |-> "checkpoint", suffix |-> Format04(epoch)]
EvalPath == [name |-> "eval", suffix |-> <<>>]

(* ---------------------------------------------------------------------- *)
(* WandbEvaluator                                                           *)
(* ---------------------------------------------------------------------- *)
WandbEvaluator(epoch) == [batch_counter |-> 0, epoch |-> epoch]

Min(a, b) == IF a <= b THEN a ELSE b

(* ---------------------------------------------------------------------- *)
(* Class labels and the two box converters                                  *)
(* ---------------------------------------------------------------------- *)
\* Hard-coded class labels
wandb_class_labels == (0 :> "no_object0") @@ (1 :> "part") @@ (2 :> "no_object2")

\* a label is either a name of the mapping or the text str(category_id):
\* an optional minus sign and the decimal digits
NamedLabel(name) == [name |-> name, minus |-> FALSE, digits |-> <<>>]
str(n) == [name |-> "", minus |-> n < 0, digits |-> Digits(IF n < 0 THEN -n ELSE n)]

\* the label looked up in the mapping without the fallback
category_label_no_fallback(category_id) ==
    IF category_id \in DOMAIN wandb_class_labels
    THEN NamedLabel(wandb_class_labels[category_id])
    ELSE NamedLabel("KeyError")

\* category_label of both converters
category_label(category_id) ==
    IF category_id \in DOMAIN wandb_class_labels
    THEN NamedLabel(wandb_class_labels[category_id])
    ELSE str(category_id)

\* a / b of two non-negative numbers as a fraction in lowest terms
RECURSIVE GCD(_, _)
GCD(a, b) == IF b = 0 THEN a ELSE GCD(b, a % b)

Div(a, b) == LET g == GCD(a, b) IN [num |-> a \div g, den |-> b \div g]

\* " (%.2f)" % float(score): scores are in thousandths, captions in hundredths
NoScoreCaption == [shown |-> FALSE, hundredths |-> 0]
ScoreCaption(score) == [shown |-> TRUE, hundredths |-> (score + 5) \div 10]

\* the ground-truth conversion with the two entries of orig_size exchanged
coco_annotation_to_wandb_bbox_swapped(ann, orig_size) ==
    [position |-> [minX |-> Div(ann.bbox[1], orig_size[1]),
                   maxX |-> Div(ann.bbox[1] + ann.bbox[3], orig_size[1]),
                   minY |-> Div(ann.bbox[2], orig_size[2]),
                   maxY |-> Div(ann.bbox[2] + ann.bbox[4], orig_size[2])],
     class_id |-> ann.category_id,
     box_caption |-> [prefix |-> "", id |-> ann.id,
                      label |-> category_label(ann.category_id),
                      score |-> NoScoreCaption],
     scores |-> <<>>,
     domain |-> "percentage"]

\* coco_annotation_to_wandb_bbox(ann, orig_size): bbox is [x, y, w, h] in
\* pixels, orig_size is [H, W]
coco_annotation_to_wandb_bbox(ann, orig_size) ==
    [position |-> [minX |-> Div(ann.bbox[1], orig_size[2]),
                   maxX |-> Div(ann.bbox[1] + ann.bbox[3], orig_size[2]),
                   minY |-> Div(ann.bbox[2], orig_size[1]),
                   maxY |-> Div(ann.bbox[2] + ann.bbox[4], orig_size[1])],
     class_id |-> ann.category_id,
     box_caption |-> [prefix |-> "", id |-> ann.id,
                      label |-> category_label(ann.category_id),
                      score |-> NoScoreCaption],
     scores |-> <<>>,
     domain |-> "percentage"]

\* the conversion to clamped corners instead of middle, width and height
pytorch_box_to_wandb_bbox_corners(box, box_id, category_id, prefix, score) ==
    [position |-> [minX |-> Max(box[1] - (box[3] \div 2), 0),
                   maxX |-> Min(box[1] + (box[3] \div 2), 100),
                   minY |-> Max(box[2] - (box[4] \div 2), 0),
                   maxY |-> Min(box[2] + (box[4] \div 2), 100)],
     class_id |-> category_id,
     box_caption |-> [prefix |-> prefix, id |-> box_id,
                      label |-> category_label(category_id),
                      score |-> IF score # 0 THEN ScoreCaption(score) ELSE NoScoreCaption],
     scores |-> [score |-> score],
     domain |-> "percentage"]

\* pytorch_box_to_wandb_bbox(box, box_id, category_id, prefix, score): box is
\* [cx, cy, w, h]
pytorch_box_to_wandb_bbox(box, box_id, category_id, prefix, score) ==
    [position |-> [middle |-> <<box[1], box[2]>>, width |-> box[3], height |-> box[4]],
     class_id |-> category_id,
     box_caption |-> [prefix |-> prefix, id |-> box_id,
                      label |-> category_label(category_id),
                      score |-> IF score # 0 THEN ScoreCaption(score) ELSE NoScoreCaption],
     scores |-> [score |-> score],
     domain |-> "percentage"]

\* box_data_gt of one image: zip(target["boxes"], target["labels"])
box_data_gt(target) ==
    [k \in 1 .. Min(Len(target.boxes), Len(target.labels)) |->
        pytorch_box_to_wandb_bbox(target.boxes[k], k - 1, target.labels[k], "gt", 0)]

\* box_data_dt of one image: zip(result["boxes"], result["labels"], result["scores"])
box_data_dt(result) ==
    [k \in 1 .. Min(Len(result.boxes), Min(Len(result.labels), Len(result.scores))) |->
        pytorch_box_to_wandb_bbox(result.boxes[k], k - 1, result.labels[k], "dt",
                                  result.scores[k])]

\* wandb_images: one wandb.Image per image of the batch
wandb_images(images) ==
    [i \in 1 .. Len(images) |->
        [ground_truth |-> [box_data |-> box_data_gt(images[i].target),
                           class_labels |-> wandb_class_labels],
         predictions |-> [box_data |-> box_data_dt(images[i].result),
                          class_labels |-> wandb_class_labels]]]

\* number of box conversions of a sampled batch: one per ground-truth box
\* and one per predicted box of every image
RECURSIVE BoxConversions(_)
BoxConversions(images) ==
    IF images = <<>> THEN 0
    ELSE Len(box_data_gt(images[1].target)) + Len(box_data_dt(images[1].result))
         + BoxConversions(Tail(images))

\* what a call that does not sample hands to the sink: nothing
NothingSent == [calls |-> 0, key |-> [epoch |-> Unbound, batch |-> Unbound], images |-> <<>>]

\* send with the counter left alone on the skipped path
sendStuckCounter(self, images, sinkOk) ==
    IF (self.batch_counter % SampleInterval) # 0
    THEN [self |-> self,
          decomposed |-> 0, conversions |-> 0, sink |-> 0, raised |-> FALSE,
          sent |-> NothingSent]
    ELSE [self |-> IF sinkOk THEN [self EXCEPT !.batch_counter = @ + 1] ELSE self,
          decomposed |-> 1,
          conversions |-> BoxConversions(images),
          sink |-> 1,
          raised |-> ~sinkOk,
          sent |-> [calls |-> 1,
                    key |-> [epoch |-> self.epoch, batch |-> self.batch_counter],
                    images |-> wandb_images(images)]]

\* send(targets, results, samples): the new sampler, what the call did, what
\* it handed to wandb.log and whether it raised.  sinkOk is the outcome of
\* wandb.log.
send(self, images, sinkOk) ==
    IF (self.batch_counter % SampleInterval) # 0
    THEN [self |-> [self EXCEPT !.batch_counter = @ + 1],
          decomposed |-> 0, conversions |-> 0, sink |-> 0, raised |-> FALSE,
          sent |-> NothingSent]
    ELSE [self |-> IF sinkOk THEN [self EXCEPT !.batch_counter = @ + 1] ELSE self,
          decomposed |-> 1,
          conversions |-> BoxConversions(images),
          sink |-> 1,
          raised |-> ~sinkOk,
          sent |-> [calls |-> 1,
                    key |-> [epoch |-> self.epoch, batch |-> self.batch_counter],
                    images |-> wandb_images(images)]]

(* ---------------------------------------------------------------------- *)
(* Batches the data loaders can yield                                       *)
(* ---------------------------------------------------------------------- *)
SeqUpTo(S, n) == UNION {[1 .. k -> S] : k \in 0 .. n}

Targets(items) ==
    {[boxes |-> [k \in 1 .. Len(t) |-> t[k].box],
      labels |-> [k \in 1 .. Len(t) |-> t[k].label]] :
        t \in SeqUpTo(items, MaxBoxes)}

Results(items) ==
    {[boxes |-> [k \in 1 .. Len(t) |-> t[k].box],
      labels |-> [k \in 1 .. Len(t) |-> t[k].label],
      scores |-> [k \in 1 .. Len(t) |-> t[k].score]] :
        t \in SeqUpTo(items, MaxBoxes)}

Batches(gtItems, dtItems) ==
    UNION {[1 .. n -> [target : Targets(gtItems), result : Results(dtItems)]] :
             n \in 1 .. MaxImages}

\* boxes are [cx, cy, w, h] in hundredths of the image, scores in thousandths
Images ==
    Batches([box : {<<50, 50, 20, 20>>}, label : {1}],
            [box : {<<50, 50, 20, 20>>}, label : {1}, score : {900}])

VariedImages ==
    Batches([box : {<<50, 50, 20, 20>>, <<25, 75, 10, 30>>}, label : {1}],
            [box : {<<50, 50, 20, 20>>}, label : {7}, score : {0, 904}])

\* the batches of a dataset
BatchesOf(data) == IF data = "varied" THEN VariedImages ELSE Images

(* ---------------------------------------------------------------------- *)
(* State                                                                    *)
(* ---------------------------------------------------------------------- *)
VARIABLES
    args,          \* the parsed command line (the same for every rank)
    world_size,    \* number of processes
    num_batches,   \* dataset_train_size // batch_size
    resume_src,    \* what the resume path holds
    dataset,       \* which batches the data loaders can yield
    run,           \* number of restarts from the latest checkpoint so far
    conv,          \* the last standalone box conversion: input and output
    files,         \* the output directory: path -> payload
    writes,        \* history: every file write, with the rank that did it
    pc,            \* per rank: position in main()
    error,         \* per rank: the exception that ended main(), "" if none
    seeds,         \* per rank: seed given to each random source, Unbound before
    built,         \* per rank: build_model has run
    reads,         \* per rank: number of checkpoint / frozen-weights files read
    model,         \* per rank: model weights
    optimizer,     \* per rank: optimizer state
    lr_scheduler,  \* per rank: scheduler state
    start_epoch,   \* per rank: args.start_epoch
    epoch,         \* per rank: the loop variable, Unbound before the loop
    sampler_epoch, \* per rank: epoch given to the DistributedSampler
    evaluator,     \* per rank: the WandbEvaluator of the running pass
    batch,         \* per rank: batches consumed in the running pass
    calls,         \* per rank: history, send calls made on the evaluator
    last_send,     \* per rank: history, what the last send call did
    sent,          \* per rank: history, what send handed to wandb.log in this pass
    train_stats,   \* per rank: result of the last training pass
    test_stats,    \* per rank: result of the last evaluation pass
    logged,        \* per rank: records emitted by the per-epoch wandb.log
    trace,         \* per rank: history, steps of the current epoch in order
    passes         \* per rank: history, number of train / eval passes started

vars == <<args, world_size, num_batches, resume_src, dataset, run, conv, files,
          writes, pc, error, seeds, built, reads, model, optimizer,
          lr_scheduler, start_epoch, epoch, sampler_epoch, evaluator, batch,
          calls, last_send, sent, train_stats, test_stats, logged, trace,
          passes>>

Ranks == 0 .. (world_size - 1)

\* utils.get_rank / utils.is_main_process
get_rank(r) == r
is_main_process(r) == get_rank(r) = 0

(* ---------------------------------------------------------------------- *)
(* Values of the abstracted tensors                                         *)
(* ---------------------------------------------------------------------- *)
NParameters == 7

InitialModel == [base |-> "built", detr |-> "built", updates |-> 0]
InitialOptimizer == [base |-> "built", steps |-> 0]
\* StepLR(optimizer, args.lr_drop): last_epoch counts the step() calls
StepLR(step_size) == [last_epoch |-> 0, step_size |-> step_size]

NoSend == [decomposed |-> 0, conversions |-> 0, sink |-> 0, raised |-> FALSE]
NoStats == [pass |-> "none", epoch |-> Unbound]
NoEvaluator == [batch_counter |-> Unbound, epoch |-> Unbound]

(* ---------------------------------------------------------------------- *)
(* What a resume path can hold                                              *)
(* ---------------------------------------------------------------------- *)
AllKeys == {"model", "optimizer", "lr_scheduler", "epoch"}

Payload(keys, e, fault, step_size) ==
    [keys |-> keys, fault |-> fault, epoch |-> e,
     model |-> [base |-> "resumed", detr |-> "resumed", updates |-> e + 1],
     optimizer |-> [base |-> "resumed", steps |-> e + 1],
     lr_scheduler |-> [last_epoch |-> e + 1, step_size |-> step_size]]

NoResume == [keys |-> {}, fault |-> "no_resume", epoch |-> 0,
             model |-> InitialModel, optimizer |-> InitialOptimizer,
             lr_scheduler |-> StepLR(0)]

ResumeEpochs(epochs) == {e \in {epochs - 2, epochs - 1} : e >= 0}

LocalSources(a) ==
    {Payload(k, e, "none", a.lr_drop) :
        k \in SUBSET AllKeys, e \in ResumeEpochs(a.epochs)}
    \cup {Payload(AllKeys, Max(a.epochs - 1, 0), f, a.lr_drop) :
            f \in {"unreachable", "model_rejected", "optimizer_rejected",
                   "scheduler_rejected"}}

HttpsSources(a) ==
    {Payload(AllKeys, Max(a.epochs - 1, 0), f, a.lr_drop) :
        f \in {"none", "hash_mismatch"}}

ResumeSources(a) ==
    CASE a.resume = "" -> {NoResume}
      [] a.resume = "local" -> LocalSources(a)
      [] a.resume = "https" -> HttpsSources(a)

(* ---------------------------------------------------------------------- *)
(* Initial states                                                           *)
(* ---------------------------------------------------------------------- *)
Args(starts, drops, runs, resumes) ==
    {[eval |-> ev, output_dir |-> od, distributed |-> di,
      frozen_weights |-> fw, masks |-> ma, lr_drop |-> ld,
      start_epoch |-> st, epochs |-> st + k, seed |-> DefaultSeed,
      resume |-> re] :
        ev \in BOOLEAN, od \in BOOLEAN, di \in BOOLEAN, fw \in BOOLEAN,
        ma \in BOOLEAN, ld \in drops, st \in starts, k \in runs,
        re \in resumes}

NoConv == [kind |-> "none"]

InitWith(argset, worlds, batches, data) ==
    /\ args \in argset
    /\ world_size \in worlds
    /\ args.distributed \/ world_size = 1
    /\ num_batches \in batches
    /\ resume_src \in ResumeSources(args)
    /\ dataset = data
    /\ run = 0
    /\ conv = NoConv
    /\ files = <<>>
    /\ writes = {}
    /\ pc = [r \in Ranks |-> "start"]
    /\ error = [r \in Ranks |-> ""]
    /\ seeds = [r \in Ranks |-> [torch |-> Unbound, np |-> Unbound, random |-> Unbound]]
    /\ built = [r \in Ranks |-> FALSE]
    /\ reads = [r \in Ranks |-> 0]
    /\ model = [r \in Ranks |-> [base |-> "none", detr |-> "none", updates |-> 0]]
    /\ optimizer = [r \in Ranks |-> [base |-> "none", steps |-> 0]]
    /\ lr_scheduler = [r \in Ranks |-> [last_epoch |-> Unbound, step_size |-> 0]]
    /\ start_epoch = [r \in Ranks |-> args.start_epoch]
    /\ epoch = [r \in Ranks |-> Unbound]
    /\ sampler_epoch = [r \in Ranks |-> Unbound]
    /\ evaluator = [r \in Ranks |-> NoEvaluator]
    /\ batch = [r \in Ranks |-> 0]
    /\ calls = [r \in Ranks |-> 0]
    /\ last_send = [r \in Ranks |-> NoSend]
    /\ sent = [r \in Ranks |-> NothingSent]
    /\ train_stats = [r \in Ranks |-> NoStats]
    /\ test_stats = [r \in Ranks |-> NoStats]
    /\ logged = [r \in Ranks |-> <<>>]
    /\ trace = [r \in Ranks |-> <<>>]
    /\ passes = [r \in Ranks |-> [train |-> 0, eval |-> 0]]

Init == InitWith(Args(StartEpochs, LrDrops, -1 .. MaxRun, {"", "local", "https"}),
                 {1}, 0 .. MaxBatches, "plain")

(* ---------------------------------------------------------------------- *)
(* Helpers of the actions                                                   *)
(* ---------------------------------------------------------------------- *)
Raise(r, name) ==
    /\ pc' = [pc EXCEPT ![r] = "failed"]
    /\ error' = [error EXCEPT ![r] = name]

Goto(r, label) ==
    /\ pc' = [pc EXCEPT ![r] = label]
    /\ UNCHANGED error

Record(r, step) == trace' = [trace EXCEPT ![r] = Append(@, step)]

\* torch.save(payload, path) by rank r
FsWrite(fs, r, payload, path) ==
    [files |-> (path :> payload) @@ fs.files,
     writes |-> fs.writes \cup {[rank |-> r, path |-> path, epoch |-> payload.epoch]}]

\* utils.save_on_master
save_on_master(fs, r, payload, path) ==
    IF is_main_process(r) THEN FsWrite(fs, r, payload, path) ELSE fs

\* the write of one checkpoint path done by whichever rank runs it
SaveCheckpointOnEveryRank(fs, r, payload, path) == FsWrite(fs, r, payload, path)

\* the write of one checkpoint path in main()
SaveCheckpoint(fs, r, payload, path) == save_on_master(fs, r, payload, path)

\* the boundary test taken on the epoch index instead of on epoch + 1
ExtraCheckpointOnIndex(e, lr_drop) ==
    e % lr_drop = 0 \/ e % CenturyInterval = 0

\* the extra checkpoint before LR drop and every 100 epochs
ExtraCheckpoint(e, lr_drop) ==
    (e + 1) % lr_drop = 0 \/ (e + 1) % CenturyInterval = 0

checkpoint_paths(e, lr_drop) ==
    <<LatestPath>> \o (IF ExtraCheckpoint(e, lr_drop) THEN <<NumberedPath(e)>> ELSE <<>>)

RECURSIVE SaveAll(_, _, _, _)
SaveAll(fs, r, payload, paths) ==
    IF paths = <<>> THEN fs
    ELSE SaveAll(SaveCheckpoint(fs, r, payload, paths[1]), r, payload, Tail(paths))

\* the payload with the number of the next epoch stored as its epoch
CheckpointPayloadNextEpoch(r) ==
    [model |-> model[r], optimizer |-> optimizer[r],
     lr_scheduler |-> lr_scheduler[r], epoch |-> epoch[r] + 1, args |-> args]

CheckpointPayload(r) ==
    [model |-> model[r], optimizer |-> optimizer[r],
     lr_scheduler |-> lr_scheduler[r], epoch |-> epoch[r], args |-> args]

\* the restore condition without the evaluation-only test
RestoresTrainingAlsoInEval(a, src) ==
    /\ "optimizer" \in src.keys
    /\ "lr_scheduler" \in src.keys
    /\ "epoch" \in src.keys

\* the condition under which optimizer, scheduler and epoch are restored
RestoresTraining(a, src) ==
    /\ ~a.eval
    /\ "optimizer" \in src.keys
    /\ "lr_scheduler" \in src.keys
    /\ "epoch" \in src.keys

\* log_stats of one epoch
LogStatsOf(r) ==
    [test |-> test_stats[r], epoch |-> epoch[r], n_parameters |-> NParameters]

(* ---------------------------------------------------------------------- *)
(* Groups of variables                                                      *)
(* ---------------------------------------------------------------------- *)
cfg == <<args, world_size, num_batches, resume_src, dataset, run, conv>>
fsv == <<files, writes>>
boot == <<seeds, built, reads>>
training == <<model, optimizer, lr_scheduler, start_epoch>>
loopv == <<epoch, sampler_epoch>>
samp == <<evaluator, batch, calls, last_send, sent>>
stats == <<train_stats, test_stats, logged>>
hist == <<trace, passes>>

(* ---------------------------------------------------------------------- *)
(* main(): bootstrap                                                        *)
(* ---------------------------------------------------------------------- *)
\* the bootstrap without the frozen_weights / masks assertion
CheckArgsUnchecked(r) ==
    /\ pc[r] = "start"
    /\ Goto(r, "seed")
    /\ UNCHANGED <<cfg, fsv, boot, training, loopv, samp, stats, hist>>

\* init_distributed_mode, then the frozen_weights / masks assertion
CheckArgs(r) ==
    /\ pc[r] = "start"
    /\ IF args.frozen_weights /\ ~args.masks
       THEN Raise(r, "AssertionError")
       ELSE Goto(r, "seed")
    /\ UNCHANGED <<cfg, fsv, boot, training, loopv, samp, stats, hist>>

\* the base seed applied on every rank
FixSeedWithoutRank(r) ==
    /\ pc[r] = "seed"
    /\ LET seed == args.seed
       IN seeds' = [seeds EXCEPT ![r] = [torch |-> seed, np |-> seed, random |-> seed]]
    /\ Goto(r, "build")
    /\ UNCHANGED <<cfg, fsv, built, reads, training, loopv, samp, stats, hist>>

\* fix the seed for reproducibility
FixSeed(r) ==
    /\ pc[r] = "seed"
    /\ LET seed == args.seed + get_rank(r)
       IN seeds' = [seeds EXCEPT ![r] = [torch |-> seed, np |-> seed, random |-> seed]]
    /\ Goto(r, "build")
    /\ UNCHANGED <<cfg, fsv, built, reads, training, loopv, samp, stats, hist>>

\* build_model, the optimizer, the scheduler, the datasets and loaders
BuildModel(r) ==
    /\ pc[r] = "build"
    /\ built' = [built EXCEPT ![r] = TRUE]
    /\ model' = [model EXCEPT ![r] = InitialModel]
    /\ optimizer' = [optimizer EXCEPT ![r] = InitialOptimizer]
    /\ lr_scheduler' = [lr_scheduler EXCEPT ![r] = StepLR(args.lr_drop)]
    /\ Goto(r, "frozen")
    /\ UNCHANGED <<cfg, fsv, seeds, reads, start_epoch, loopv, samp, stats, hist>>

\* if args.frozen_weights is not None: load them into model.detr
LoadFrozenWeights(r) ==
    /\ pc[r] = "frozen"
    /\ IF args.frozen_weights
       THEN /\ reads' = [reads EXCEPT ![r] = @ + 1]
            /\ \E ok \in BOOLEAN :
                 IF ok
                 THEN /\ model' = [model EXCEPT ![r].detr = "frozen"]
                      /\ Goto(r, "resume")
                 ELSE /\ UNCHANGED model
                      /\ Raise(r, "FrozenWeightsUnreadable")
       ELSE /\ UNCHANGED <<reads, model>>
            /\ Goto(r, "resume")
    /\ UNCHANGED <<cfg, fsv, seeds, built, optimizer, lr_scheduler, start_epoch,
                   loopv, samp, stats, hist>>

\* if args.resume: load the checkpoint and reconcile the training state
Resume(r) ==
    /\ pc[r] = "resume"
    /\ IF args.resume = ""
       THEN /\ Goto(r, "main")
            /\ UNCHANGED <<reads, training>>
       ELSE
         /\ reads' = [reads EXCEPT ![r] = @ + 1]
         /\ CASE resume_src.fault \in {"unreachable", "hash_mismatch"} ->
                   /\ Raise(r, "LoadError")
                   /\ UNCHANGED training
              [] resume_src.fault \notin {"unreachable", "hash_mismatch"}
                 /\ "model" \notin resume_src.keys ->
                   /\ Raise(r, "KeyError")
                   /\ UNCHANGED training
              [] resume_src.fault = "model_rejected"
                 /\ "model" \in resume_src.keys ->
                   \* load_state_dict copies what matches before it raises
                   /\ \E partial \in BOOLEAN :
                        model' = [model EXCEPT ![r] =
                                    IF partial THEN [@ EXCEPT !.base = "partial"] ELSE @]
                   /\ Raise(r, "RuntimeError")
                   /\ UNCHANGED <<optimizer, lr_scheduler, start_epoch>>
              [] OTHER ->
                   /\ model' = [model EXCEPT ![r] = resume_src.model]
                   /\ IF RestoresTraining(args, resume_src)
                      THEN CASE resume_src.fault = "optimizer_rejected" ->
                                  /\ Raise(r, "ValueError")
                                  /\ UNCHANGED <<optimizer, lr_scheduler, start_epoch>>
                             [] resume_src.fault = "scheduler_rejected" ->
                                  /\ optimizer' = [optimizer EXCEPT ![r] = resume_src.optimizer]
                                  /\ Raise(r, "TypeError")
                                  /\ UNCHANGED <<lr_scheduler, start_epoch>>
                             [] OTHER ->
                                  /\ optimizer' = [optimizer EXCEPT ![r] = resume_src.optimizer]
                                  /\ lr_scheduler' = [lr_scheduler EXCEPT ![r] = resume_src.lr_scheduler]
                                  /\ start_epoch' = [start_epoch EXCEPT ![r] = resume_src.epoch + 1]
                                  /\ Goto(r, "main")
                      ELSE /\ Goto(r, "main")
                           /\ UNCHANGED <<optimizer, lr_scheduler, start_epoch>>
    /\ UNCHANGED <<cfg, fsv, seeds, built, loopv, samp, stats, hist>>

\* if args.eval: evaluate(..., WandbEvaluator(epoch), epoch, ...), save, return
EvaluateOnly(r) ==
    /\ pc[r] = "main"
    /\ args.eval
    /\ IF epoch[r] = Unbound
       THEN /\ Raise(r, "UnboundLocalError")
            /\ UNCHANGED <<fsv, samp, stats, hist>>
       ELSE /\ evaluator' = [evaluator EXCEPT ![r] = WandbEvaluator(epoch[r])]
            /\ passes' = [passes EXCEPT ![r].eval = @ + 1]
            /\ test_stats' = [test_stats EXCEPT ![r] = [pass |-> "eval", epoch |-> epoch[r]]]
            /\ LET fs == IF args.output_dir
                         THEN save_on_master([files |-> files, writes |-> writes], r,
                                             [epoch |-> epoch[r]], EvalPath)
                         ELSE [files |-> files, writes |-> writes]
               IN /\ files' = fs.files
                  /\ writes' = fs.writes
            /\ Goto(r, "done")
            /\ UNCHANGED <<batch, calls, last_send, sent, train_stats, logged, trace>>
    /\ UNCHANGED <<cfg, boot, training, loopv>>

\* wandb.config.update(args); print("Start training")
StartTraining(r) ==
    /\ pc[r] = "main"
    /\ ~args.eval
    /\ Goto(r, "for")
    /\ UNCHANGED <<cfg, fsv, boot, training, loopv, samp, stats, hist>>

(* ---------------------------------------------------------------------- *)
(* main(): the training loop                                                *)
(* ---------------------------------------------------------------------- *)
\* the loop with args.epochs as its last epoch
ForEpochInclusive(r) ==
    /\ pc[r] = "for"
    /\ LET next == IF epoch[r] = Unbound THEN start_epoch[r] ELSE epoch[r] + 1
       IN IF next <= args.epochs
          THEN /\ epoch' = [epoch EXCEPT ![r] = next]
               /\ trace' = [trace EXCEPT ![r] = <<>>]
               /\ Goto(r, "set_epoch")
          ELSE /\ UNCHANGED <<epoch, trace>>
               /\ Goto(r, "done")
    /\ UNCHANGED <<cfg, fsv, boot, training, sampler_epoch, samp, stats, passes>>

\* for epoch in range(args.start_epoch, args.epochs)
ForEpoch(r) ==
    /\ pc[r] = "for"
    /\ LET next == IF epoch[r] = Unbound THEN start_epoch[r] ELSE epoch[r] + 1
       IN IF next < args.epochs
          THEN /\ epoch' = [epoch EXCEPT ![r] = next]
               /\ trace' = [trace EXCEPT ![r] = <<>>]
               /\ Goto(r, "set_epoch")
          ELSE /\ UNCHANGED <<epoch, trace>>
               /\ Goto(r, "done")
    /\ UNCHANGED <<cfg, fsv, boot, training, sampler_epoch, samp, stats, passes>>

\* if args.distributed: sampler_train.set_epoch(epoch)
SetEpoch(r) ==
    /\ pc[r] = "set_epoch"
    /\ IF args.distributed
       THEN /\ sampler_epoch' = [sampler_epoch EXCEPT ![r] = epoch[r]]
            /\ Record(r, "set_epoch")
       ELSE UNCHANGED <<sampler_epoch, trace>>
    /\ Goto(r, "train_call")
    /\ UNCHANGED <<cfg, fsv, boot, training, epoch, samp, stats, passes>>

\* train_one_epoch(..., wandb_evaluator=WandbEvaluator(epoch)) is entered
TrainBegin(r) ==
    /\ pc[r] = "train_call"
    /\ evaluator' = [evaluator EXCEPT ![r] = WandbEvaluator(epoch[r])]
    /\ batch' = [batch EXCEPT ![r] = 0]
    /\ calls' = [calls EXCEPT ![r] = 0]
    /\ sent' = [sent EXCEPT ![r] = NothingSent]
    /\ passes' = [passes EXCEPT ![r].train = @ + 1]
    /\ Record(r, "train")
    /\ Goto(r, "train")
    /\ UNCHANGED <<cfg, fsv, boot, training, loopv, last_send, stats>>

\* one batch offered to the evaluator of the running pass
Offer(r, onRaise, onReturn) ==
    \E images \in BatchesOf(dataset), sinkOk \in BOOLEAN :
      LET res == send(evaluator[r], images, sinkOk)
      IN /\ evaluator' = [evaluator EXCEPT ![r] = res.self]
         /\ calls' = [calls EXCEPT ![r] = @ + 1]
         /\ last_send' = [last_send EXCEPT ![r] =
                            [decomposed |-> res.decomposed,
                             conversions |-> res.conversions,
                             sink |-> res.sink, raised |-> res.raised]]
         /\ sent' = [sent EXCEPT ![r] = res.sent]
         /\ IF res.raised THEN Raise(r, onRaise) ELSE Goto(r, onReturn)

\* one batch of the training pass: optimizer step, then the batch is offered
TrainBatch(r) ==
    /\ pc[r] = "train"
    /\ batch[r] < num_batches
    /\ batch' = [batch EXCEPT ![r] = @ + 1]
    /\ model' = [model EXCEPT ![r].updates = @ + 1]
    /\ optimizer' = [optimizer EXCEPT ![r].steps = @ + 1]
    /\ Offer(r, "SinkError", "train")
    /\ UNCHANGED <<cfg, fsv, boot, lr_scheduler, start_epoch, loopv, stats, hist>>

\* train_one_epoch returns the statistics of the pass
TrainReturn(r) ==
    /\ pc[r] = "train"
    /\ batch[r] = num_batches
    /\ train_stats' = [train_stats EXCEPT ![r] = [pass |-> "train", epoch |-> epoch[r]]]
    /\ Goto(r, "lr_step")
    /\ UNCHANGED <<cfg, fsv, boot, training, loopv, samp, test_stats, logged, hist>>

\* the schedule step followed at once by the evaluation pass
LrStepThenEvaluate(r) ==
    /\ pc[r] = "lr_step"
    /\ lr_scheduler' = [lr_scheduler EXCEPT ![r].last_epoch = @ + 1]
    /\ Record(r, "lr_step")
    /\ Goto(r, "eval_call")
    /\ UNCHANGED <<cfg, fsv, boot, model, optimizer, start_epoch, loopv, samp,
                   stats, passes>>

\* lr_scheduler.step()
LrStep(r) ==
    /\ pc[r] = "lr_step"
    /\ lr_scheduler' = [lr_scheduler EXCEPT ![r].last_epoch = @ + 1]
    /\ Record(r, "lr_step")
    /\ Goto(r, "checkpoint")
    /\ UNCHANGED <<cfg, fsv, boot, model, optimizer, start_epoch, loopv, samp,
                   stats, passes>>

\* the loop body without the checkpoint block
CheckpointLeftOut(r) ==
    /\ pc[r] = "checkpoint"
    /\ Goto(r, "eval_call")
    /\ UNCHANGED <<cfg, fsv, boot, training, loopv, samp, stats, hist>>

\* if args.output_dir: save the latest and, on a boundary, the numbered file
Checkpoint(r) ==
    /\ pc[r] = "checkpoint"
    /\ IF args.output_dir
       THEN LET fs == SaveAll([files |-> files, writes |-> writes], r,
                              CheckpointPayload(r),
                              checkpoint_paths(epoch[r], args.lr_drop))
            IN /\ files' = fs.files
               /\ writes' = fs.writes
               /\ Record(r, "checkpoint")
       ELSE UNCHANGED <<files, writes, trace>>
    /\ Goto(r, "eval_call")
    /\ UNCHANGED <<cfg, boot, training, loopv, samp, stats, passes>>

\* the evaluation pass entered with the sampler of the training pass
EvalBeginSharedSampler(r) ==
    /\ pc[r] = "eval_call"
    /\ batch' = [batch EXCEPT ![r] = 0]
    /\ calls' = [calls EXCEPT ![r] = 0]
    /\ sent' = [sent EXCEPT ![r] = NothingSent]
    /\ passes' = [passes EXCEPT ![r].eval = @ + 1]
    /\ Record(r, "eval")
    /\ Goto(r, "eval")
    /\ UNCHANGED <<cfg, fsv, boot, training, loopv, evaluator, last_send, stats>>

\* evaluate(..., WandbEvaluator(epoch), epoch, ...) is entered
EvalBegin(r) ==
    /\ pc[r] = "eval_call"
    /\ evaluator' = [evaluator EXCEPT ![r] = WandbEvaluator(epoch[r])]
    /\ batch' = [batch EXCEPT ![r] = 0]
    /\ calls' = [calls EXCEPT ![r] = 0]
    /\ sent' = [sent EXCEPT ![r] = NothingSent]
    /\ passes' = [passes EXCEPT ![r].eval = @ + 1]
    /\ Record(r, "eval")
    /\ Goto(r, "eval")
    /\ UNCHANGED <<cfg, fsv, boot, training, loopv, last_send, stats>>

\* one batch of the evaluation pass
EvalBatch(r) ==
    /\ pc[r] = "eval"
    /\ batch[r] < num_batches
    /\ batch' = [batch EXCEPT ![r] = @ + 1]
    /\ Offer(r, "SinkError", "eval")
    /\ UNCHANGED <<cfg, fsv, boot, training, loopv, stats, hist>>

\* evaluate returns the statistics of the pass
EvalReturn(r) ==
    /\ pc[r] = "eval"
    /\ batch[r] = num_batches
    /\ test_stats' = [test_stats EXCEPT ![r] = [pass |-> "eval", epoch |-> epoch[r]]]
    /\ Goto(r, "log")
    /\ UNCHANGED <<cfg, fsv, boot, training, loopv, samp, train_stats, logged, hist>>

\* log_stats = {test_*, epoch, n_parameters}; wandb.log(log_stats)
LogStats(r) ==
    /\ pc[r] = "log"
    /\ \E sinkOk \in BOOLEAN :
         IF sinkOk
         THEN /\ logged' = [logged EXCEPT ![r] = Append(@, LogStatsOf(r))]
              /\ Record(r, "log")
              /\ Goto(r, "for")
         ELSE /\ UNCHANGED <<logged, trace>>
              /\ Raise(r, "SinkError")
    /\ UNCHANGED <<cfg, fsv, boot, training, loopv, samp, train_stats, test_stats,
                   passes>>

Next ==
    \E r \in Ranks :
        \/ CheckArgs(r)
        \/ FixSeed(r)
        \/ BuildModel(r)
        \/ LoadFrozenWeights(r)
        \/ Resume(r)
        \/ EvaluateOnly(r)
        \/ StartTraining(r)
        \/ ForEpoch(r)
        \/ SetEpoch(r)
        \/ TrainBegin(r)
        \/ TrainBatch(r)
        \/ TrainReturn(r)
        \/ LrStep(r)
        \/ Checkpoint(r)
        \/ EvalBegin(r)
        \/ EvalBatch(r)
        \/ EvalReturn(r)
        \/ LogStats(r)

Spec == Init /\ [][Next]_vars

\* one process, passes long enough for the sampler to come round again
InitLong == InitWith(Args({0}, {200}, {1}, {"", "local"}), {1}, {LongBatches}, "plain")

SpecLong == InitLong /\ [][Next]_vars

\* several processes sharing the output directory
DistArgs == {a \in Args({99}, {200}, {1}, {""}) : ~a.frozen_weights /\ ~a.masks}

InitDist == InitWith(DistArgs, 1 .. MaxWorld, {1}, "plain")

SpecDist == InitDist /\ [][Next]_vars

(* ---------------------------------------------------------------------- *)
(* Properties                                                               *)
(* ---------------------------------------------------------------------- *)
AfterCheckpoint(r) == pc[r] \in {"eval_call", "eval", "log"}

NumberedWrites(e) == {w \in writes : w.epoch = e /\ w.path # LatestPath}

\* C1: after the checkpoint step of epoch e with an output directory, the
\* latest file has been rewritten with epoch e, and a numbered file of epoch
\* e has been written iff e + 1 is a multiple of lr_drop or of 100; the
\* numbered file carries the epoch in its name.
C1_CheckpointFiles ==
    \A r \in Ranks :
      (is_main_process(r) /\ args.output_dir /\ AfterCheckpoint(r)) =>
        /\ LatestPath \in DOMAIN files
        /\ files[LatestPath].epoch = epoch[r]
        /\ [rank |-> r, path |-> LatestPath, epoch |-> epoch[r]] \in writes
        /\ (NumberedWrites(epoch[r]) # {})
             <=> (((epoch[r] + 1) % args.lr_drop = 0) \/ ((epoch[r] + 1) % 100 = 0))
        /\ \A w \in NumberedWrites(epoch[r]) :
             /\ w.path = NumberedPath(epoch[r])
             /\ w.path \in DOMAIN files
             /\ files[w.path].epoch = epoch[r]
        /\ (args.lr_drop = 200 /\ epoch[r] \in {99, 199}) => NumberedWrites(epoch[r]) # {}
        /\ (args.lr_drop = 200 /\ epoch[r] = 150) => NumberedWrites(epoch[r]) = {}

C1_Witness ==
    /\ args.lr_drop = 200
    /\ args.output_dir
    /\ pc[0] = "eval_call"
    /\ epoch[0] = 199
    /\ NumberedPath(199) \in DOMAIN files
    /\ files[LatestPath].epoch = 199

PassedResume(r) == pc[r] \notin {"start", "seed", "build", "frozen", "resume", "failed"}

OnlyWeightsRestored(r) ==
    /\ model[r] = resume_src.model
    /\ optimizer[r] = InitialOptimizer
    /\ lr_scheduler[r] = StepLR(args.lr_drop)
    /\ start_epoch[r] = args.start_epoch

TrainingRestored(r) ==
    /\ model[r] = resume_src.model
    /\ optimizer[r] = resume_src.optimizer
    /\ lr_scheduler[r] = resume_src.lr_scheduler
    /\ start_epoch[r] = resume_src.epoch + 1

FirstEpochIs(r, e) ==
    (pc[r] = "set_epoch" /\ passes[r].train = 0) => epoch[r] = e

\* C2 as stated: with a resume path, a payload that carries optimizer and
\* scheduler state and evaluation-only off restores optimizer and scheduler
\* and starts at checkpoint.epoch + 1; every other resume restores the
\* weights only and keeps the configured start epoch.
C2_ResumeAsStated ==
    \A r \in Ranks :
      (args.resume # "" /\ PassedResume(r) /\ passes[r].train = 0) =>
        IF ~args.eval /\ {"optimizer", "lr_scheduler"} \subseteq resume_src.keys
        THEN TrainingRestored(r) /\ FirstEpochIs(r, resume_src.epoch + 1)
        ELSE OnlyWeightsRestored(r) /\ FirstEpochIs(r, args.start_epoch)

\* C2 amended: with a resume path, a payload that carries optimizer state,
\* scheduler state and an epoch entry, and evaluation-only off, restores
\* optimizer and scheduler and starts at checkpoint.epoch + 1; every other
\* resume restores the weights only and keeps the configured start epoch.
C2_ResumeReconciliation ==
    \A r \in Ranks :
      (args.resume # "" /\ PassedResume(r) /\ passes[r].train = 0) =>
        IF ~args.eval /\ {"optimizer", "lr_scheduler", "epoch"} \subseteq resume_src.keys
        THEN TrainingRestored(r) /\ FirstEpochIs(r, resume_src.epoch + 1)
        ELSE OnlyWeightsRestored(r) /\ FirstEpochIs(r, args.start_epoch)

C2_Witness ==
    /\ args.resume = "local"
    /\ ~args.eval
    /\ resume_src.keys = AllKeys
    /\ pc[0] = "set_epoch"
    /\ passes[0].train = 0
    /\ epoch[0] = resume_src.epoch + 1
    /\ epoch[0] # args.start_epoch
    /\ optimizer[0] = resume_src.optimizer

\* C3: on one sampler, call number n (counted from 0) reaches the sink iff
\* n mod 50 = 0; any other call decomposes no image, converts no box, calls
\* no sink and only adds one to batch_counter.
C3_EveryFiftiethCall ==
    [][\A r \in Ranks :
         (r \in DOMAIN calls' /\ calls'[r] = calls[r] + 1) =>
           /\ (last_send'[r].sink = 1) <=> (calls[r] % 50 = 0)
           /\ (calls[r] % 50 # 0) =>
                /\ last_send'[r] = NoSend
                /\ evaluator'[r] = [evaluator[r] EXCEPT !.batch_counter = @ + 1]
           /\ (calls[r] % 50 = 0) => last_send'[r].decomposed = 1]_vars

C3_Witness ==
    /\ calls[0] = 51
    /\ last_send[0].sink = 1
    /\ ~last_send[0].raised
    /\ evaluator[0].batch_counter = 51

BootstrapErrors ==
    {"AssertionError", "FrozenWeightsUnreadable", "LoadError", "KeyError",
     "RuntimeError", "ValueError", "TypeError"}

\* C4: in evaluation-only mode a process that gets through the bootstrap runs
\* one evaluation pass and finishes normally; it never trains, never steps
\* the scheduler, never writes a checkpoint, and writes the accumulator file
\* only with an output directory.
C4_EvaluateOnly ==
    \A r \in Ranks :
      args.eval =>
        /\ pc[r] = "failed" => error[r] \in BootstrapErrors
        /\ pc[r] = "done" =>
             /\ passes[r].eval = 1
             /\ (EvalPath \in DOMAIN files) <=> args.output_dir
        /\ passes[r].train = 0
        /\ optimizer[r].steps \in {0, resume_src.optimizer.steps}
        /\ lr_scheduler[r].last_epoch \in {Unbound, 0}
        /\ \A w \in writes : w.path = EvalPath

\* C5: at the end of every epoch one more record has been emitted, holding
\* the epoch index, the parameter count, the statistics of the epoch's
\* training pass and the statistics of its evaluation pass.
C5_EpochRecord ==
    \A r \in Ranks :
      (pc[r] = "for" /\ epoch[r] # Unbound) =>
        /\ Len(logged[r]) = passes[r].train
        /\ LET rec == logged[r][Len(logged[r])]
           IN /\ rec.epoch = epoch[r]
              /\ rec.n_parameters = NParameters
              /\ rec.test = [pass |-> "eval", epoch |-> epoch[r]]
              /\ "train" \in DOMAIN rec
              /\ rec.train = [pass |-> "train", epoch |-> epoch[r]]

IsPrefix(s, t) == Len(s) <= Len(t) /\ \A i \in 1 .. Len(s) : s[i] = t[i]

EpochSteps ==
    (IF args.distributed THEN <<"set_epoch">> ELSE <<>>)
    \o <<"train", "lr_step">>
    \o (IF args.output_dir THEN <<"checkpoint">> ELSE <<>>)
    \o <<"eval", "log">>

\* C6: the steps of an epoch happen once each in the order set_epoch
\* (distributed only), train, schedule step, checkpoint (output directory
\* only), evaluate, log; the checkpoint of epoch e holds the scheduler as it
\* is after the step of epoch e and is written before the evaluation pass.
C6_EpochOrder ==
    \A r \in Ranks :
      /\ IsPrefix(trace[r], EpochSteps)
      /\ (pc[r] = "for" /\ epoch[r] # Unbound) => trace[r] = EpochSteps
      /\ (pc[r] = "eval_call" /\ args.output_dir /\ is_main_process(r)) =>
           /\ LatestPath \in DOMAIN files
           /\ files[LatestPath].epoch = epoch[r]
           /\ files[LatestPath].lr_scheduler = lr_scheduler[r]
           /\ train_stats[r].epoch = epoch[r]
           /\ test_stats[r].epoch # epoch[r]
      /\ (pc[r] = "train_call" /\ args.distributed) => sampler_epoch[r] = epoch[r]

C6_Witness ==
    /\ args.distributed
    /\ args.output_dir
    /\ pc[0] = "for"
    /\ passes[0].train = 2
    /\ trace[0] = <<"set_epoch", "train", "lr_step", "checkpoint", "eval", "log">>

\* C7: with frozen_weights set and masks unset the process ends with the
\* assertion failure before the model is built, before a seed is applied
\* and before a checkpoint or frozen-weights file is read.
C7_FrozenNeedsMasks ==
    \A r \in Ranks :
      (args.frozen_weights /\ ~args.masks) =>
        /\ pc[r] \in {"start", "failed"}
        /\ pc[r] = "failed" => error[r] = "AssertionError"
        /\ ~built[r]
        /\ seeds[r] = [torch |-> Unbound, np |-> Unbound, random |-> Unbound]
        /\ reads[r] = 0

C7_Witness ==
    /\ args.frozen_weights
    /\ ~args.masks
    /\ pc[0] = "failed"
    /\ error[0] = "AssertionError"

ResumeErrors == {"LoadError", "KeyError", "RuntimeError", "ValueError", "TypeError"}

ModelBeforeResume ==
    [InitialModel EXCEPT !.detr = IF args.frozen_weights THEN "frozen" ELSE "built"]

\* C8: a failed resume ends the process with model weights, optimizer state,
\* scheduler state and start epoch as they were before the resume step, and
\* without any training epoch.
C8_FailedResumeMutatesNothing ==
    \A r \in Ranks :
      (pc[r] = "failed" /\ error[r] \in ResumeErrors) =>
        /\ model[r] = ModelBeforeResume
        /\ optimizer[r] = InitialOptimizer
        /\ lr_scheduler[r] = StepLR(args.lr_drop)
        /\ start_epoch[r] = args.start_epoch
        /\ passes[r].train = 0

\* C9: a failure of the tracking sink in a sampled visualization call or in
\* the per-epoch logging does not end the training pass or the loop.
C9_SinkFailureIsolated ==
    \A r \in Ranks : pc[r] = "failed" => error[r] # "SinkError"

\* C10: checkpoint files and the accumulator file are written by rank 0
\* only, the save step of every other rank writes nothing, no path has two
\* writers, and a single process is the master and does write.
C10_MasterOnlyWrites ==
    /\ \A w \in writes : w.rank = 0
    /\ \A w1 \in writes, w2 \in writes : w1.path = w2.path => w1.rank = w2.rank
    /\ \A r \in Ranks :
         (args.output_dir /\ AfterCheckpoint(r)) =>
           ([rank |-> r, path |-> LatestPath, epoch |-> epoch[r]] \in writes
              <=> is_main_process(r))
    /\ \A r \in Ranks :
         (world_size = 1 /\ args.output_dir /\ AfterCheckpoint(r)) =>
           /\ LatestPath \in DOMAIN files
           /\ files[LatestPath].epoch = epoch[r]

C10_Witness ==
    /\ world_size >= 2
    /\ args.output_dir
    /\ pc[1] = "eval_call"
    /\ pc[0] = "eval_call"
    /\ NumberedPath(99) \in DOMAIN files
    /\ \A w \in writes : w.rank = 0

(* ---------------------------------------------------------------------- *)
(* Properties of the sampled records                                        *)
(* ---------------------------------------------------------------------- *)
\* one process, one batch per pass, batches with varied boxes
SampleArgs == {a \in Args({0}, {200}, {1}, {""}) : ~a.frozen_weights /\ ~a.masks}

InitSample == InitWith(SampleArgs, {1}, {1}, "varied")

SpecSample == InitSample /\ [][Next]_vars

CornerKeys == {"minX", "maxX", "minY", "maxY"}
CenterKeys == {"middle", "width", "height"}

BoxesOf(list) == {list[k] : k \in 1 .. Len(list)}

SentImages(r) == {sent[r].images[i] : i \in 1 .. Len(sent[r].images)}

RECURSIVE SentBoxes(_)
SentBoxes(imgs) ==
    IF imgs = <<>> THEN 0
    ELSE Len(imgs[1].ground_truth.box_data) + Len(imgs[1].predictions.box_data)
         + SentBoxes(Tail(imgs))

OneSinkCallPerSample(r) ==
    /\ sent[r].calls \in {0, 1}
    /\ sent[r].calls = 0 => sent[r].images = <<>>
    /\ sent[r].calls = 1 =>
         /\ Len(sent[r].images) >= 1
         /\ sent[r].key.epoch = epoch[r]
         /\ last_send[r].sink = 1

PredictionsAreCenterSize(r) ==
    \A img \in SentImages(r) :
      \A k \in 1 .. Len(img.predictions.box_data) :
        LET b == img.predictions.box_data[k]
        IN /\ DOMAIN b.position = CenterKeys
           /\ b.box_caption.prefix = "dt"
           /\ b.box_caption.id = k - 1
           /\ b.box_caption.score.shown <=> b.scores.score # 0

C12_FreshSamplerPerPass ==
    [][\A r \in Ranks :
         /\ (passes'[r] # passes[r]) =>
              /\ evaluator'[r] = [batch_counter |-> 0, epoch |-> epoch[r]]
              /\ calls'[r] = 0
         /\ (calls[r] = 0 /\ calls'[r] = 1) =>
              /\ evaluator[r].batch_counter = 0
              /\ last_send'[r].sink = 1
              /\ sent'[r].key = [epoch |-> epoch[r], batch |-> 0]]_vars

C12_Witness ==
    /\ num_batches = 1
    /\ pc[0] = "eval"
    /\ passes[0] = [train |-> 2, eval |-> 2]
    /\ calls[0] = 1
    /\ last_send[0].sink = 1
    /\ evaluator[0].batch_counter = 1

(* ---------------------------------------------------------------------- *)
(* The converters on their own                                              *)
(* ---------------------------------------------------------------------- *)
MaxCategoryId == 11

CategoryIds == -2 .. MaxCategoryId

Annotations ==
    [bbox : {<<x, y, 30, h>> : x \in {0, 10}, y \in {20}, h \in {1, 40}},
     category_id : CategoryIds, id : {0, 5}]

\* orig_size is [H, W]
OrigSizes == {<<100, 200>>, <<200, 100>>, <<64, 48>>}

\* coco_annotation_to_wandb_bbox applied to an annotation
ConvertAnnotation ==
    /\ conv = NoConv
    /\ \E ann \in Annotations, orig_size \in OrigSizes :
         conv' = [kind |-> "coco", ann |-> ann, orig_size |-> orig_size,
                  category_id |-> ann.category_id,
                  out |-> coco_annotation_to_wandb_bbox(ann, orig_size)]
    /\ UNCHANGED <<args, world_size, num_batches, resume_src, dataset, run, fsv,
                   pc, error, boot, training, loopv, samp, stats, hist>>

\* pytorch_box_to_wandb_bbox applied to a box
ConvertBox ==
    /\ conv = NoConv
    /\ \E box \in {<<50, 50, 20, 20>>, <<25, 75, 10, 30>>}, box_id \in 0 .. 1,
          category_id \in CategoryIds, prefix \in {"gt", "dt"}, score \in {0, 904} :
         conv' = [kind |-> "pytorch", box |-> box, box_id |-> box_id,
                  category_id |-> category_id, prefix |-> prefix, score |-> score,
                  out |-> pytorch_box_to_wandb_bbox(box, box_id, category_id,
                                                    prefix, score)]
    /\ UNCHANGED <<args, world_size, num_batches, resume_src, dataset, run, fsv,
                   pc, error, boot, training, loopv, samp, stats, hist>>

NextConv == ConvertAnnotation \/ ConvertBox

ConvArgs ==
    {a \in Args({0}, {200}, {0}, {""}) :
        ~a.eval /\ ~a.output_dir /\ ~a.distributed /\ ~a.frozen_weights /\ ~a.masks}

InitConv == InitWith(ConvArgs, {1}, {0}, "plain")

SpecConv == InitConv /\ [][NextConv]_vars

\* the number written by a sequence of decimal digits
RECURSIVE DecimalValue(_)
DecimalValue(ds) ==
    IF ds = <<>> THEN 0 ELSE 10 * DecimalValue(SubSeq(ds, 1, Len(ds) - 1)) + ds[Len(ds)]

IsDecimalOf(label, n) ==
    /\ label.name = ""
    /\ Len(label.digits) >= 1
    /\ \A i \in 1 .. Len(label.digits) : label.digits[i] \in 0 .. 9
    /\ Len(label.digits) > 1 => label.digits[1] # 0
    /\ label.minus <=> n < 0
    /\ (IF label.minus THEN -1 ELSE 1) * DecimalValue(label.digits) = n

\* C13: both converters resolve a label for every category id: 0, 1 and 2
\* give the names of the fixed mapping, any other id gives its decimal text.
C13_LabelResolutionTotal ==
    conv.kind \in {"coco", "pytorch"} =>
      LET id == conv.category_id
          label == conv.out.box_caption.label
      IN /\ id = 0 => label = [name |-> "no_object0", minus |-> FALSE, digits |-> <<>>]
         /\ id = 1 => label = [name |-> "part", minus |-> FALSE, digits |-> <<>>]
         /\ id = 2 => label = [name |-> "no_object2", minus |-> FALSE, digits |-> <<>>]
         /\ id \notin {0, 1, 2} => IsDecimalOf(label, id)
         /\ conv.out.class_id = id

C13_Witness ==
    /\ conv.kind = "coco"
    /\ conv.category_id = 10
    /\ conv.out.box_caption.label.digits = <<1, 0>>

\* C15: the ground-truth conversion of [x, y, w, h] with image size [H, W]
\* gives minX = x/W, maxX = (x+w)/W, minY = y/H, maxY = (y+h)/H, tagged
\* "percentage"; [10, 20, 30, 40] on width 200 and height 100 gives 0.05,
\* 0.20, 0.20 and 0.60.
C15_GroundTruthConversion ==
    conv.kind = "coco" =>
      LET x == conv.ann.bbox[1]
          y == conv.ann.bbox[2]
          w == conv.ann.bbox[3]
          h == conv.ann.bbox[4]
          H == conv.orig_size[1]
          W == conv.orig_size[2]
          pos == conv.out.position
      IN /\ DOMAIN pos = {"minX", "maxX", "minY", "maxY"}
         /\ pos.minX.den > 0 /\ pos.maxX.den > 0 /\ pos.minY.den > 0 /\ pos.maxY.den > 0
         /\ pos.minX.num * W = x * pos.minX.den
         /\ pos.maxX.num * W = (x + w) * pos.maxX.den
         /\ pos.minY.num * H = y * pos.minY.den
         /\ pos.maxY.num * H = (y + h) * pos.maxY.den
         /\ conv.out.domain = "percentage"
         /\ (conv.ann.bbox = <<10, 20, 30, 40>> /\ conv.orig_size = <<100, 200>>) =>
              /\ pos.minX.num * 100 = 5 * pos.minX.den
              /\ pos.maxX.num * 100 = 20 * pos.maxX.den
              /\ pos.minY.num * 100 = 20 * pos.minY.den
              /\ pos.maxY.num * 100 = 60 * pos.maxY.den

C15_Witness ==
    /\ conv.kind = "coco"
    /\ conv.ann.bbox = <<10, 20, 30, 40>>
    /\ conv.orig_size = <<100, 200>>
    /\ conv.out.position.minX = [num |-> 1, den |-> 20]
    /\ conv.out.position.maxY = [num |-> 3, den |-> 5]

(* ---------------------------------------------------------------------- *)
(* The bootstrap of several ranks with several base seeds                   *)
(* ---------------------------------------------------------------------- *)
SeedWorld == 4

BaseSeeds == {0, DefaultSeed, 1000}

SeedArgs ==
    {[a EXCEPT !.seed = s] :
        a \in {b \in Args({0}, {200}, {1}, {""}) :
                 b.distributed /\ ~b.eval /\ ~b.output_dir},
        s \in BaseSeeds}

InitSeed == InitWith(SeedArgs, 1 .. SeedWorld, {1}, "plain")

NextBoot ==
    \E r \in Ranks :
        \/ CheckArgs(r)
        \/ FixSeed(r)
        \/ BuildModel(r)
        \/ LoadFrozenWeights(r)
        \/ Resume(r)

SpecSeed == InitSeed /\ [][NextBoot]_vars

Seeded(r) == r \in Ranks /\ seeds[r].torch # Unbound

\* C14: a worker of rank r gives base seed + r to the framework, array and
\* general random sources, so workers of distinct ranks use distinct seeds;
\* base seed 42 gives 42 on rank 0 and 45 on rank 3.
C14_SeedPerRank ==
    /\ \A r \in Ranks :
         Seeded(r) =>
           /\ seeds[r].torch = args.seed + r
           /\ seeds[r].np = args.seed + r
           /\ seeds[r].random = args.seed + r
    /\ \A r1 \in Ranks, r2 \in Ranks :
         (Seeded(r1) /\ Seeded(r2) /\ r1 # r2) => seeds[r1].torch # seeds[r2].torch
    /\ (args.seed = 42 /\ Seeded(0)) => seeds[0].torch = 42
    /\ (args.seed = 42 /\ Seeded(3)) => seeds[3].torch = 45

C14_Witness ==
    /\ args.seed = 42
    /\ world_size >= 4
    /\ seeds[0] = [torch |-> 42, np |-> 42, random |-> 42]
    /\ seeds[3] = [torch |-> 45, np |-> 45, random |-> 45]

(* ---------------------------------------------------------------------- *)
(* Order of checkpoint and evaluation                                       *)
(* ---------------------------------------------------------------------- *)
Steps(r) == {trace[r][i] : i \in 1 .. Len(trace[r])}

Pos(r, step) == CHOOSE i \in 1 .. Len(trace[r]) : trace[r][i] = step

Before(r, first, second) ==
    second \in Steps(r) => (first \in Steps(r) /\ Pos(r, first) < Pos(r, second))

ClaimedEpochSteps ==
    (IF args.distributed THEN <<"set_epoch">> ELSE <<>>)
    \o <<"train", "lr_step", "eval">>
    \o (IF args.output_dir THEN <<"checkpoint">> ELSE <<>>)
    \o <<"log">>

\* C16 as stated: in every epoch the evaluation pass runs before the
\* checkpoint write: train, schedule step, evaluate, checkpoint, log.
C16_EvaluateBeforeCheckpoint ==
    \A r \in Ranks :
      /\ IsPrefix(trace[r], ClaimedEpochSteps)
      /\ Before(r, "eval", "checkpoint")

\* C16 amended: in every epoch the checkpoint write runs before the
\* evaluation pass: train, schedule step, checkpoint, evaluate, log.
C16_CheckpointBeforeEvaluate ==
    \A r \in Ranks :
      /\ Before(r, "train", "lr_step")
      /\ Before(r, "lr_step", "checkpoint")
      /\ Before(r, "lr_step", "eval")
      /\ args.output_dir => Before(r, "checkpoint", "eval")
      /\ Before(r, "eval", "log")
      /\ (args.output_dir /\ is_main_process(r) /\ pc[r] = "eval") =>
           /\ LatestPath \in DOMAIN files
           /\ files[LatestPath].epoch = epoch[r]
      /\ pc[r] = "checkpoint" => test_stats[r].epoch # epoch[r]

C16_Witness ==
    /\ args.output_dir
    /\ ~args.distributed
    /\ pc[0] = "log"
    /\ trace[0] = <<"train", "lr_step", "checkpoint", "eval">>
    /\ files[LatestPath].epoch = epoch[0]
    /\ test_stats[0].epoch = epoch[0]

(* ---------------------------------------------------------------------- *)
(* The epochs the loop runs                                                 *)
(* ---------------------------------------------------------------------- *)
InitRuns == InitWith(Args({0, 198}, {200}, -1 .. MaxRun, {"", "local", "https"}),
                     {1}, 0 .. MaxBatches, "plain")

\* a process keeps executing until main() returns or raises
SpecFair == InitRuns /\ [][Next]_vars /\ WF_vars(Next)

EpochsToRun(r) == Max(0, args.epochs - start_epoch[r])

EpochsRunInOrder(r) ==
    /\ epoch[r] # Unbound =>
         /\ start_epoch[r] <= epoch[r]
         /\ epoch[r] < args.epochs
         /\ passes[r].train =
              IF pc[r] \in {"set_epoch", "train_call"}
              THEN epoch[r] - start_epoch[r]
              ELSE epoch[r] - start_epoch[r] + 1
    /\ epoch[r] = Unbound => passes[r].train = 0
    /\ \A i \in 1 .. Len(logged[r]) : logged[r][i].epoch = start_epoch[r] + i - 1
    /\ pc[r] = "done" =>
         /\ passes[r].train = EpochsToRun(r)
         /\ passes[r].eval = EpochsToRun(r)
         /\ Len(logged[r]) = EpochsToRun(r)
    /\ (pc[r] = "done" /\ start_epoch[r] >= args.epochs) =>
         /\ passes[r].train = 0
         /\ epoch[r] = Unbound
         /\ writes = {}
         /\ model[r].updates = (IF args.resume = "" THEN 0 ELSE resume_src.model.updates)

\* C17: with evaluation-only off the loop runs exactly the epochs start,
\* start + 1, ..., epochs - 1 in increasing order and main() then returns
\* unless a step fails; when start >= epochs no epoch runs, nothing is
\* trained, no checkpoint is written and main() still returns.
C17_EpochsRun ==
    /\ [](~args.eval => EpochsRunInOrder(0))
    /\ <>(pc[0] \in {"done", "failed"})
    /\ [](pc[0] = "failed" => error[0] # "")

C17_Witness ==
    /\ ~args.eval
    /\ args.resume = "local"
    /\ resume_src.epoch = args.epochs - 1
    /\ start_epoch[0] = args.epochs
    /\ pc[0] = "done"
    /\ passes[0].train = 0

(* ---------------------------------------------------------------------- *)
(* Runs resumed from the latest checkpoint of the run before                *)
(* ---------------------------------------------------------------------- *)
MaxRestarts == 2

\* torch.load of a checkpoint file written by main()
Loaded(payload) ==
    [keys |-> AllKeys \cup {"args"}, fault |-> "none", epoch |-> payload.epoch,
     model |-> payload.model, optimizer |-> payload.optimizer,
     lr_scheduler |-> payload.lr_scheduler]

\* the process is stopped, or has ended, and main() is started again with
\* --resume <output_dir>/checkpoint.pth and otherwise the same arguments
Restart(r) ==
    /\ run < MaxRestarts
    /\ args.output_dir
    /\ ~args.eval
    /\ LatestPath \in DOMAIN files
    /\ run' = run + 1
    /\ args' = [args EXCEPT !.resume = "local"]
    /\ resume_src' = Loaded(files[LatestPath])
    /\ pc' = [pc EXCEPT ![r] = "start"]
    /\ error' = [error EXCEPT ![r] = ""]
    /\ seeds' = [seeds EXCEPT ![r] = [torch |-> Unbound, np |-> Unbound, random |-> Unbound]]
    /\ built' = [built EXCEPT ![r] = FALSE]
    /\ reads' = [reads EXCEPT ![r] = 0]
    /\ model' = [model EXCEPT ![r] = [base |-> "none", detr |-> "none", updates |-> 0]]
    /\ optimizer' = [optimizer EXCEPT ![r] = [base |-> "none", steps |-> 0]]
    /\ lr_scheduler' = [lr_scheduler EXCEPT ![r] = [last_epoch |-> Unbound, step_size |-> 0]]
    /\ start_epoch' = [start_epoch EXCEPT ![r] = args.start_epoch]
    /\ epoch' = [epoch EXCEPT ![r] = Unbound]
    /\ sampler_epoch' = [sampler_epoch EXCEPT ![r] = Unbound]
    /\ evaluator' = [evaluator EXCEPT ![r] = NoEvaluator]
    /\ batch' = [batch EXCEPT ![r] = 0]
    /\ calls' = [calls EXCEPT ![r] = 0]
    /\ last_send' = [last_send EXCEPT ![r] = NoSend]
    /\ sent' = [sent EXCEPT ![r] = NothingSent]
    /\ train_stats' = [train_stats EXCEPT ![r] = NoStats]
    /\ test_stats' = [test_stats EXCEPT ![r] = NoStats]
    /\ logged' = [logged EXCEPT ![r] = <<>>]
    /\ trace' = [trace EXCEPT ![r] = <<>>]
    /\ passes' = [passes EXCEPT ![r] = [train |-> 0, eval |-> 0]]
    /\ UNCHANGED <<world_size, num_batches, dataset, conv, fsv>>

NextChain == Next \/ \E r \in Ranks : Restart(r)

ChainArgs ==
    {a \in Args({0}, {2, 200}, 1 .. MaxRun + 1, {""}) : ~a.frozen_weights /\ ~a.masks}

InitChain == InitWith(ChainArgs, {1}, {1}, "plain")

SpecChain == InitChain /\ [][NextChain]_vars

CheckpointFiles == {p \in DOMAIN files : p # EvalPath}

\* C18: in a run started at epoch 0 and in every run resumed from the latest
\* checkpoint of the run before, the scheduler has been stepped e times when
\* the training pass of epoch e begins, and every checkpoint file holds an
\* epoch e together with a scheduler stepped e + 1 times.
C18_ScheduleFollowsEpoch ==
    /\ \A r \in Ranks :
         ~args.eval =>
           /\ pc[r] \in {"set_epoch", "train_call", "train"} =>
                lr_scheduler[r].last_epoch = epoch[r]
           /\ pc[r] \in {"checkpoint", "eval_call", "eval", "log"} =>
                lr_scheduler[r].last_epoch = epoch[r] + 1
           /\ lr_scheduler[r].last_epoch # Unbound =>
                lr_scheduler[r].step_size = args.lr_drop
    /\ \A p \in CheckpointFiles :
         /\ files[p].lr_scheduler.last_epoch = files[p].epoch + 1
         /\ files[p].lr_scheduler.step_size = args.lr_drop

C18_Witness ==
    /\ run = 2
    /\ pc[0] = "train"
    /\ epoch[0] = 2
    /\ start_epoch[0] = 2
    /\ lr_scheduler[0].last_epoch = 2
    /\ files[LatestPath].epoch = 1

(* ---------------------------------------------------------------------- *)
(* Checkpoint files of one run                                              *)
(* ---------------------------------------------------------------------- *)
FileStarts == {0, 98, 9999}
FileDrops == {1, 3}

InitFiles ==
    InitWith(Args(FileStarts, FileDrops, 0 .. MaxRun, {""}), {1}, 0 .. MaxBatches, "plain")

SpecFiles == InitFiles /\ [][Next]_vars

NumberedFiles(fs) == {p \in DOMAIN fs : p.name = "checkpoint" /\ p.suffix # <<>>}

LatestIsNewest(r) ==
    /\ LatestPath \in DOMAIN files
    /\ files[LatestPath].epoch = epoch[r]
    /\ \A p \in CheckpointFiles : files[p].epoch <= epoch[r]
    /\ \A w \in writes : w.epoch <= epoch[r]

NamedByStoredEpoch ==
    \A p \in NumberedFiles(files) :
      /\ p.suffix = Format04(files[p].epoch)
      /\ Len(p.suffix) >= PadWidth
      /\ DecimalValue(p.suffix) = files[p].epoch
      /\ files[p].epoch < 10000 => Len(p.suffix) = PadWidth
      /\ [rank |-> 0, path |-> p, epoch |-> files[p].epoch] \in writes

NumberedFilesKept ==
    \A p \in NumberedFiles(files) : p \in DOMAIN files' /\ files'[p] = files[p]

\* C19: once the checkpoint step of epoch e has run with an output directory,
\* the latest file holds epoch e and no checkpoint file of the run holds a
\* larger one; every numbered file is named by the decimal digits, padded with
\* zeros to four places, of the epoch stored in it; and no step removes or
\* changes a numbered file.
C19_CheckpointLayout ==
    /\ [](\A r \in Ranks :
            (is_main_process(r) /\ args.output_dir /\ AfterCheckpoint(r)) => LatestIsNewest(r))
    /\ []NamedByStoredEpoch
    /\ [][NumberedFilesKept]_vars

C19_Witness ==
    /\ args.output_dir
    /\ args.lr_drop = 1
    /\ pc[0] = "log"
    /\ epoch[0] = 10000
    /\ files[LatestPath].epoch = 10000
    /\ NumberedFiles(files) =
         {[name |-> "checkpoint", suffix |-> <<9, 9, 9, 9>>],
          [name |-> "checkpoint", suffix |-> <<1, 0, 0, 0, 0>>]}

====
